---- MODULE Spec2Model ----
(***************************************************************************)
(* Model of the pizza-annotation utilities:                                *)
(*   clean_json_image_paths.py  (Path Normalizer)                          *)
(*   find_and_copy_images.py    (Image Locator/Copier)                     *)
(*   streamlit_app.py           (Annotation Extractor)                     *)
(* Python strings are sequences of one-character strings, so that split,   *)
(* substring search, endswith and the regular expression are computed, not *)
(* assumed.                                                                *)
(***************************************************************************)
EXTENDS Integers, Sequences, FiniteSets, TLC

VARIABLES
    pc,              \* position of the running script
    source_text,     \* text of the JSON file the first run was given
    json_content,    \* text of the JSON file read by the script
    output,          \* text written to output_file_path (Path Normalizer)
    modified_count,  \* clean_image_paths_in_json: modified_count
    branch,          \* which path of the try/except wrote the output
    run,             \* how many times the Path Normalizer has been run
    data,            \* extract_annotation_data: its argument
    idx,             \* position of the loop over data / over the walk
    annotation_data, \* extract_annotation_data: the list being built
    image_names,     \* find_and_copy_images: extracted target names
    files,           \* files of the source tree, in os.walk order
    found_images,    \* recursive_search_and_copy: found_images
    target_dir,      \* names of the files present in the target directory
    attempts,        \* log of the copy attempts (the printed lines)
    not_found        \* the reported set of names that were not found

vars == <<pc, source_text, json_content, output, modified_count, branch, run, data, idx,
          annotation_data, image_names, files, found_images, target_dir,
          attempts, not_found>>

normVars == <<source_text, json_content, output, modified_count, branch, run>>
extVars  == <<data, annotation_data>>
locVars  == <<image_names, files, found_images, target_dir, attempts, not_found>>

----------------------------------------------------------------------------
(* Bounds of the model *)

MaxRecs    == 2   \* records in the JSON list given to the Path Normalizer
MaxRuns    == 2   \* successive runs of the Path Normalizer on its own output
MaxItems   == 3   \* elements of the list given to the Annotation Extractor
MaxAnn     == 2   \* annotations of one record
MaxResults == 2   \* result entries of one record, over all its annotations
MaxTargets == 2   \* records of the JSON list given to the Image Locator
MaxFiles   == 2   \* files in the source tree

----------------------------------------------------------------------------
(* Python string operations *)

Range(s) == {s[i] : i \in 1..Len(s)}

\* c in s, for a one-character c
HasChar(s, c) == c \in Range(s)

\* s.split(c)[-1]
SplitLast(s, c) ==
    IF ~HasChar(s, c) THEN s
    ELSE LET last == CHOOSE i \in 1..Len(s) :
                        s[i] = c /\ \A j \in (i+1)..Len(s) : s[j] # c
         IN  SubSeq(s, last + 1, Len(s))

\* s.split(c)[0]
SplitFirst(s, c) ==
    IF ~HasChar(s, c) THEN s
    ELSE LET first == CHOOSE i \in 1..Len(s) :
                         s[i] = c /\ \A j \in 1..(i-1) : s[j] # c
         IN  SubSeq(s, 1, first - 1)

\* s.endswith(suf)
EndsWith(s, suf) ==
    /\ Len(suf) <= Len(s)
    /\ SubSeq(s, Len(s) - Len(suf) + 1, Len(s)) = suf

\* sub in s
IsSubstring(sub, s) ==
    \E i \in 0..(Len(s) - Len(sub)) : SubSeq(s, i + 1, i + Len(sub)) = sub

LowerChar(c) ==
    CASE c = "A" -> "a" [] c = "B" -> "b" [] c = "C" -> "c"
      [] c = "J" -> "j" [] c = "P" -> "p" [] c = "G" -> "g"
      [] c = "E" -> "e" [] c = "N" -> "n" [] OTHER -> c

\* s.lower()
Lower(s) == [i \in 1..Len(s) |-> LowerChar(s[i])]

DotJpg  == <<".", "j", "p", "g">>
DotJpeg == <<".", "j", "p", "e", "g">>
DotPng  == <<".", "p", "n", "g">>
ImageExts == {DotJpg, DotJpeg, DotPng}

----------------------------------------------------------------------------
(* JSON documents.  A text is [type, fmt, items]: the type of its          *)
(* top-level value ("invalid" when json.loads rejects the text), its       *)
(* layout and, for a list, its elements (for an object: the object itself  *)
(* as the one mapping of items; for an invalid text: the records whose     *)
(* "image" fields occur in the text).  An element is a record              *)
(* [isdict, has_data, has_image, image].                                   *)

NoImage == << >>

Scalar      == [isdict |-> FALSE, has_data |-> FALSE, has_image |-> FALSE, image |-> NoImage]
DictNoData  == [isdict |-> TRUE,  has_data |-> FALSE, has_image |-> FALSE, image |-> NoImage]
DataNoImage == [isdict |-> TRUE,  has_data |-> TRUE,  has_image |-> FALSE, image |-> NoImage]
WithImage(v) == [isdict |-> TRUE, has_data |-> TRUE,  has_image |-> TRUE,  image |-> v]

\* isinstance(item, dict) and 'data' in item and 'image' in item.get('data', {})
HasImageField(item) == item.isdict /\ item.has_data /\ item.has_image

SeqsUpTo(S, n) == UNION {[1..k -> S] : k \in 0..n}

----------------------------------------------------------------------------
(* Path Normalizer: clean_json_image_paths.py *)

NoText == [type |-> "none", fmt |-> "none", items |-> << >>]

\* Image values of the input records: bare names, URLs, query suffixes with
\* and without '/', a '?' before the last '/', extensions the pattern does
\* and does not know.
NormImages ==
    { << >>,
      <<"a", ".", "j", "p", "g">>,
      <<"a", ".", "j", "p", "g", "?", "t">>,
      <<"x", "/">>,
      <<"x", "/", "a", ".", "j", "p", "g">>,
      <<"x", "/", "a", ".", "j", "p", "g", "?", "t">>,
      <<"x", "/", "a", ".", "j", "p", "g", "?", "t", "/", "b">>,
      <<"x", "/", "a", ".", "j", "p", "e", "g", "?", "t">>,
      <<"x", "?", "t", "/", "a", ".", "p", "n", "g">>,
      <<"x", "/", "a", ".", "g", "i", "f">>,
      <<"x", "/", "a", ".", "J", "P", "G">>,
      <<"x", "/", ".", "j", "p", "g">> }

NormItems == {Scalar, DictNoData, DataNoImage} \cup {WithImage(v) : v \in NormImages}

NormTexts ==
    {[type |-> t, fmt |-> "source", items |-> its] :
        t \in {"list", "invalid"}, its \in SeqsUpTo(NormItems, MaxRecs)}
    \cup {[type |-> "object", fmt |-> "source", items |-> <<it>>] :
        it \in NormItems \ {Scalar}}
    \cup {[type |-> t, fmt |-> "source", items |-> << >>] :
        t \in {"string", "number", "boolean", "null"}}

\* json.loads(json_content) raises JSONDecodeError
LoadsFails(text) == text.type = "invalid"

\* len(data) raises TypeError
LenFails(text) == text.type \in {"number", "boolean", "null"}

\* What `for idx, item in enumerate(data)` iterates over: the elements of a
\* list; the keys of an object and the characters of a string are strings.
LoopElements(text) ==
    IF text.type = "list" THEN text.items
    ELSE [i \in 1..Len(text.items) |-> Scalar]

\* lines 32-37: the filename computed for an image value containing '/'
Filename(image_url) ==
    LET last == SplitLast(image_url, "/")
    IN  IF HasChar(last, "?") THEN SplitFirst(last, "?") ELSE last

\* IsModified without the test of line 31
IsModified_NoSlashTest(item) == HasImageField(item)

\* lines 27 and 31: the record is rewritten and counted
IsModified(item) == HasImageField(item) /\ HasChar(item.image, "/")

\* lines 27-41: the body of the loop for one element
CleanItem(item) ==
    IF IsModified(item) THEN [item EXCEPT !.image = Filename(item.image)]
    ELSE item

\* the elements of data after the loop of lines 26-45
CleanedItems(text) ==
    IF text.type = "list" THEN [i \in 1..Len(text.items) |-> CleanItem(text.items[i])]
    ELSE text.items

\* modified_count after the loop
CountModified(text) ==
    Cardinality({i \in 1..Len(LoopElements(text)) : IsModified(LoopElements(text)[i])})

\* [^"\/\?]+\.(?:jpg|jpeg|png) matches the whole of n
IsPatternName(n) ==
    /\ ~HasChar(n, "/")
    /\ ~HasChar(n, "?")
    /\ \E e \in ImageExts : EndsWith(n, e) /\ Len(n) > Len(e)

\* The '/' of the value after which group 1 of the pattern of line 63 can
\* start: group 1 runs to the end of the value or to the next '?'.
PatternSlashes(v) ==
    {i \in 1..Len(v) :
        v[i] = "/" /\ IsPatternName(SplitFirst(SubSeq(v, i + 1, Len(v)), "?"))}

PatternMatches(v) == PatternSlashes(v) # {}

\* group 1 of the match: [^"]* is greedy, so the last such '/' is taken
PatternGroup(v) ==
    LET i == CHOOSE k \in PatternSlashes(v) : \A j \in PatternSlashes(v) : j <= k
    IN  SplitFirst(SubSeq(v, i + 1, Len(v)), "?")

\* re.sub(pattern, replacement, ...) on one "image": "..." field
RegexSubValue(v) == IF PatternMatches(v) THEN PatternGroup(v) ELSE v

\* re.sub over every "image" field of the text
RegexSubItems(its) ==
    [i \in 1..Len(its) |->
        IF its[i].has_image THEN [its[i] EXCEPT !.image = RegexSubValue(its[i].image)]
        ELSE its[i]]

\* lines 18-54: json.loads and len succeed, the loop runs, json.dump writes
CleanStructured ==
    /\ pc = "ready"
    /\ run < MaxRuns
    /\ ~LoadsFails(json_content)
    /\ ~LenFails(json_content)
    /\ modified_count' = CountModified(json_content)
    /\ output' = [type  |-> json_content.type,
                  fmt   |-> "indent4",
                  items |-> CleanedItems(json_content)]
    /\ branch' = "structured"
    /\ run' = run + 1
    /\ pc' = "written"
    /\ UNCHANGED <<source_text, json_content, idx>>
    /\ UNCHANGED extVars
    /\ UNCHANGED locVars

\* lines 56-72: JSONDecodeError or TypeError, the raw text is rewritten
CleanFallback ==
    /\ pc = "ready"
    /\ run < MaxRuns
    /\ LoadsFails(json_content) \/ LenFails(json_content)
    /\ modified_count' = -1
    /\ output' = [json_content EXCEPT !.items = RegexSubItems(json_content.items)]
    /\ branch' = "regex"
    /\ run' = run + 1
    /\ pc' = "written"
    /\ UNCHANGED <<source_text, json_content, idx>>
    /\ UNCHANGED extVars
    /\ UNCHANGED locVars

\* The Path Normalizer is run again on the file it wrote.
RunOnOwnOutput ==
    /\ pc = "written"
    /\ run < MaxRuns
    /\ json_content' = output
    /\ pc' = "ready"
    /\ UNCHANGED <<source_text, output, modified_count, branch, run, idx>>
    /\ UNCHANGED extVars
    /\ UNCHANGED locVars

InitNormalizer ==
    /\ pc = "ready"
    /\ json_content \in NormTexts
    /\ source_text = json_content
    /\ output = NoText
    /\ modified_count = 0
    /\ branch = "none"
    /\ run = 0
    /\ data = << >>
    /\ idx = 0
    /\ annotation_data = << >>
    /\ image_names = << >>
    /\ files = << >>
    /\ found_images = {}
    /\ target_dir = {}
    /\ attempts = << >>
    /\ not_found = {}

NextNormalizer == CleanStructured \/ CleanFallback \/ RunOnOwnOutput

SpecNormalizer == InitNormalizer /\ [][NextNormalizer]_vars

----------------------------------------------------------------------------
(* Annotation Extractor: streamlit_app.py.  Here a string is a sequence of *)
(* chunks of text, so that str.join and the f-string are concatenations.   *)

IMAGE_PREFIX ==
    <<"https://graffity-public-assets.s3.ap-southeast-1.amazonaws.com/ronn-temp/label_images/">>

NA == <<"N/A">>

Tags == {"image_quality", "pizza_quality", "pizza_quality_reason", "comments"}

ChoiceItem(tag, cs) ==
    [from_name |-> tag, has_value |-> TRUE, value_key |-> "choices",
     choices |-> cs, text |-> << >>]

TextItem(tag, t) ==
    [from_name |-> tag, has_value |-> TRUE, value_key |-> "text",
     choices |-> << >>, text |-> t]

\* ResultItems of the input: each recognized tag with two different values
\* of its own kind, and an unrecognized tag.
ResultItems ==
    { ChoiceItem("image_quality", << <<"Good">> >>),
      ChoiceItem("image_quality", << <<"Good">>, <<"Blurry">> >>),
      ChoiceItem("pizza_quality", << <<"Good">> >>),
      ChoiceItem("pizza_quality", << <<"Bad">>, <<"Good">> >>),
      ChoiceItem("pizza_quality_reason", << >>),
      ChoiceItem("pizza_quality_reason", << <<"Burnt">> >>),
      TextItem("comments", <<"first">>),
      TextItem("comments", <<"second">>),
      TextItem("brand", <<"first">>) }

\* annotations with exactly k result entries; with none, the 'result' key
\* is absent or holds an empty list
AnnsExact(k) ==
    IF k = 0
    THEN {[has_result |-> b, result |-> << >>] : b \in BOOLEAN}
    ELSE {[has_result |-> TRUE, result |-> r] : r \in [1..k -> ResultItems]}

\* sequences of at most a annotations holding at most t result entries
RECURSIVE AnnSeqs(_, _)
AnnSeqs(a, t) ==
    IF a = 0 THEN {<< >>}
    ELSE {<< >>} \cup
         UNION {{<<ann>> \o rest : ann \in AnnsExact(k), rest \in AnnSeqs(a - 1, t - k)} :
                  k \in 0..t}

ExtImages == {<< >>, <<"pizza1.jpg">>, <<"pizza2.png">>}

NotADict ==
    [isdict |-> FALSE, has_data |-> FALSE, has_image |-> FALSE, image |-> NoImage,
     has_annotations |-> FALSE, annotations |-> << >>]

\* a mapping: data absent, data without image, or data.image = v
DictItems(images, annseqs) ==
    {[isdict |-> TRUE, has_data |-> d.hd, has_image |-> d.hi, image |-> d.im,
      has_annotations |-> a.ha, annotations |-> a.an] :
        d \in {[hd |-> FALSE, hi |-> FALSE, im |-> NoImage],
               [hd |-> TRUE,  hi |-> FALSE, im |-> NoImage]}
              \cup {[hd |-> TRUE, hi |-> TRUE, im |-> v] : v \in images},
        a \in {[ha |-> FALSE, an |-> << >>]}
              \cup {[ha |-> TRUE, an |-> s] : s \in annseqs}}

\* one record with every annotation structure within the bounds
WideItems == DictItems({<<"pizza1.jpg">>}, AnnSeqs(MaxAnn, MaxResults))

\* records of every shape with few annotation structures
SmallItems ==
    {NotADict} \cup
    DictItems(ExtImages,
              {<< >>,
               <<[has_result |-> TRUE, result |-> <<TextItem("comments", <<"first">>)>>]>>})

\* ", ".join(choices)
RECURSIVE Join(_)
Join(choices) ==
    IF Len(choices) = 0 THEN << >>
    ELSE IF Len(choices) = 1 THEN choices[1]
    ELSE choices[1] \o <<", ">> \o Join(Tail(choices))

\* 'value' in result and 'choices' in result['value']
HasChoices(result) == result.has_value /\ result.value_key = "choices"

\* 'value' in result and 'text' in result['value']
HasText(result) == result.has_value /\ result.value_key = "text"

\* DefaultFields with an empty comment
DefaultFields_EmptyComments ==
    [image_quality |-> NA, pizza_quality |-> NA,
     pizza_quality_reason |-> NA, comments |-> << >>]

\* lines 55-58
DefaultFields ==
    [image_quality |-> NA, pizza_quality |-> NA,
     pizza_quality_reason |-> NA, comments |-> NA]

\* ApplyResult keeping a field that an earlier entry has set
ApplyResult_FirstWins(f, result) ==
    LET from_name == result.from_name
    IN  IF from_name = "image_quality" /\ HasChoices(result) /\ f.image_quality = NA
        THEN [f EXCEPT !.image_quality = Join(result.choices)]
        ELSE IF from_name = "pizza_quality" /\ HasChoices(result) /\ f.pizza_quality = NA
        THEN [f EXCEPT !.pizza_quality = Join(result.choices)]
        ELSE IF from_name = "pizza_quality_reason" /\ HasChoices(result)
                /\ f.pizza_quality_reason = NA
        THEN [f EXCEPT !.pizza_quality_reason = Join(result.choices)]
        ELSE IF from_name = "comments" /\ HasText(result) /\ f.comments = NA
        THEN [f EXCEPT !.comments = result.text]
        ELSE f

\* lines 65-81: the if/elif chain for one result entry
ApplyResult(f, result) ==
    LET from_name == result.from_name
    IN  IF from_name = "image_quality" /\ HasChoices(result)
        THEN [f EXCEPT !.image_quality = Join(result.choices)]
        ELSE IF from_name = "pizza_quality" /\ HasChoices(result)
        THEN [f EXCEPT !.pizza_quality = Join(result.choices)]
        ELSE IF from_name = "pizza_quality_reason" /\ HasChoices(result)
        THEN [f EXCEPT !.pizza_quality_reason = Join(result.choices)]
        ELSE IF from_name = "comments" /\ HasText(result)
        THEN [f EXCEPT !.comments = result.text]
        ELSE f

\* line 64: for result in annotation['result']
RECURSIVE ApplyResults(_, _)
ApplyResults(f, results) ==
    IF results = << >> THEN f
    ELSE ApplyResults(ApplyResult(f, Head(results)), Tail(results))

\* lines 62-63: for annotation in annotations: if 'result' in annotation
RECURSIVE ApplyAnnotations(_, _)
ApplyAnnotations(f, annotations) ==
    IF annotations = << >> THEN f
    ELSE LET annotation == Head(annotations)
         IN  ApplyAnnotations(
                 IF annotation.has_result THEN ApplyResults(f, annotation.result) ELSE f,
                 Tail(annotations))

\* HasRequiredKeys asking for the data key only
HasRequiredKeys_DataOnly(item) == item.has_data

\* line 42, negated: 'data' in item and 'annotations' in item
HasRequiredKeys(item) == item.has_data /\ item.has_annotations

\* line 47: 'image' in item.get('data', {})
HasImageKey(item) == item.has_data /\ item.has_image

\* lines 48-49
ImagePath(item) == IMAGE_PREFIX \o item.image

\* lines 85-92: the appended dictionary
FlatRecord(item) ==
    LET f == ApplyAnnotations(DefaultFields, item.annotations)
    IN  [image                |-> ImagePath(item),
         image_filename       |-> item.image,
         image_quality        |-> f.image_quality,
         pizza_quality        |-> f.pizza_quality,
         pizza_quality_reason |-> f.pizza_quality_reason,
         comments             |-> f.comments]

ExtractStep(item_ok, appended) ==
    /\ pc = "extract"
    /\ idx <= Len(data)
    /\ item_ok
    /\ annotation_data' = appended
    /\ idx' = idx + 1
    /\ UNCHANGED <<pc, data>>
    /\ UNCHANGED normVars
    /\ UNCHANGED locVars

\* lines 39-40: not a mapping
SkipNotDict ==
    ExtractStep(idx <= Len(data) /\ ~data[idx].isdict, annotation_data)

\* lines 42-43: a required key is missing
SkipMissingKey ==
    ExtractStep(idx <= Len(data) /\ data[idx].isdict /\ ~HasRequiredKeys(data[idx]),
                annotation_data)

\* lines 46-84: image_path stays None, nothing is appended
DropNoImage ==
    ExtractStep(idx <= Len(data) /\ data[idx].isdict /\ HasRequiredKeys(data[idx])
                    /\ ~HasImageKey(data[idx]),
                annotation_data)

\* lines 46-92: image_path is a non-empty string, the record is appended
AppendRecord ==
    ExtractStep(idx <= Len(data) /\ data[idx].isdict /\ HasRequiredKeys(data[idx])
                    /\ HasImageKey(data[idx]) /\ ImagePath(data[idx]) # << >>,
                Append(annotation_data, FlatRecord(data[idx])))

\* line 94: return annotation_data
ReturnAnnotationData ==
    /\ pc = "extract"
    /\ idx > Len(data)
    /\ pc' = "done"
    /\ UNCHANGED <<idx, data, annotation_data>>
    /\ UNCHANGED normVars
    /\ UNCHANGED locVars

InitExtractor ==
    /\ pc = "extract"
    /\ data \in {<<it>> : it \in WideItems} \cup SeqsUpTo(SmallItems, MaxItems)
    /\ idx = 1
    /\ annotation_data = << >>
    /\ source_text = NoText
    /\ json_content = NoText
    /\ output = NoText
    /\ modified_count = 0
    /\ branch = "none"
    /\ run = 0
    /\ image_names = << >>
    /\ files = << >>
    /\ found_images = {}
    /\ target_dir = {}
    /\ attempts = << >>
    /\ not_found = {}

NextExtractor ==
    SkipNotDict \/ SkipMissingKey \/ DropNoImage \/ AppendRecord \/ ReturnAnnotationData

SpecExtractor == InitExtractor /\ [][NextExtractor]_vars

----------------------------------------------------------------------------
(* Image Locator/Copier: find_and_copy_images.py *)

\* image values of the records of the label file
LocImages ==
    { <<"a", "b", "c", ".", "j", "p", "g">>,
      <<"h", "/", "a", "b", "c", ".", "j", "p", "g">>,
      <<"h", "/", "b", "c", ".", "j", "p", "g", "?", "s">>,
      <<"a", "b", ".", "g", "i", "f">> }

LocTexts ==
    {[type |-> t, fmt |-> "source", items |-> its] :
        t \in {"list", "invalid"},
        its \in SeqsUpTo({WithImage(v) : v \in LocImages}, MaxTargets)}

\* names of the files of the source tree
FileNames ==
    { <<"a", "b", "c", ".", "j", "p", "g">>,
      <<"x", "x", "x", "_", "a", "b", "c", ".", "j", "p", "g">>,
      <<"a", "b", "c", ".", "j", "p", "g", ".", "b", "a", "k">>,
      <<"a", "b", ".", "j", "p", "g">>,
      <<"b", "c", ".", "j", "p", "g">>,
      <<"a", "b", "c", ".", "J", "P", "G">> }

\* lines 27-31: parts[-1].split('?')[0]
ExtractedName(image_url) == SplitFirst(SplitLast(image_url, "/"), "?")

\* line 32: any(ext in filename.lower() for ext in ['.jpg', '.jpeg', '.png'])
MentionsImageExt(filename) == \E e \in ImageExts : IsSubstring(e, Lower(filename))

\* lines 23-35: the names appended for the elements its, in order
RECURSIVE NamesOf(_)
NamesOf(its) ==
    IF its = << >> THEN << >>
    ELSE LET item == Head(its)
             filename == ExtractedName(item.image)
         IN  (IF HasImageField(item) /\ MentionsImageExt(filename)
              THEN <<filename>> ELSE << >>) \o NamesOf(Tail(its))

\* line 41: re.findall(pattern, json_content), group 1 of every match
RECURSIVE FindAll(_)
FindAll(its) ==
    IF its = << >> THEN << >>
    ELSE (IF Head(its).has_image /\ PatternMatches(Head(its).image)
          THEN <<PatternGroup(Head(its).image)>> ELSE << >>) \o FindAll(Tail(its))

\* lines 18-35: the JSON text parses, the names come from the records
ExtractNamesStructured ==
    /\ pc = "start"
    /\ ~LoadsFails(json_content)
    /\ ~LenFails(json_content)
    /\ image_names' = NamesOf(LoopElements(json_content))
    /\ pc' = "extracted"
    /\ UNCHANGED <<files, found_images, target_dir, attempts, not_found, idx>>
    /\ UNCHANGED normVars
    /\ UNCHANGED extVars

\* lines 36-42: the names come from the pattern
ExtractNamesFallback ==
    /\ pc = "start"
    /\ LoadsFails(json_content) \/ LenFails(json_content)
    /\ image_names' = FindAll(json_content.items)
    /\ pc' = "extracted"
    /\ UNCHANGED <<files, found_images, target_dir, attempts, not_found, idx>>
    /\ UNCHANGED normVars
    /\ UNCHANGED extVars

\* main, lines 118-120: nothing to search for
NoNames ==
    /\ pc = "extracted"
    /\ image_names = << >>
    /\ pc' = "exit"
    /\ UNCHANGED <<idx>>
    /\ UNCHANGED locVars
    /\ UNCHANGED normVars
    /\ UNCHANGED extVars

\* lines 48-55: the target directory exists, found_images = set()
StartSearch ==
    /\ pc = "extracted"
    /\ image_names # << >>
    /\ found_images' = {}
    /\ idx' = 1
    /\ pc' = "walk"
    /\ UNCHANGED <<image_names, files, target_dir, attempts, not_found>>
    /\ UNCHANGED normVars
    /\ UNCHANGED extVars

\* line 61: file.lower().endswith(('.jpg', '.jpeg', '.png'))
IsImageFile(file) == \E e \in ImageExts : EndsWith(Lower(file), e)

\* MatchesName asking for the same name
MatchesName_Exact(image_name, file) == image_name = file

\* line 64: image_name in file
MatchesName(image_name, file) == IsSubstring(image_name, file)

HasMatch(names, file) == \E i \in 1..Len(names) : MatchesName(names[i], file)

\* FirstMatch without the break of line 75: the last matching name stands
FirstMatch_NoBreak(names, file) ==
    names[CHOOSE i \in 1..Len(names) :
            /\ MatchesName(names[i], file)
            /\ \A j \in (i + 1)..Len(names) : ~MatchesName(names[j], file)]

\* lines 63-64 and 75: the name at which the loop over image_names stops
FirstMatch(names, file) ==
    names[CHOOSE i \in 1..Len(names) :
            /\ MatchesName(names[i], file)
            /\ \A j \in 1..(i - 1) : ~MatchesName(names[j], file)]

\* lines 59-61: the file is not an image file
SkipNotImage ==
    /\ pc = "walk"
    /\ idx <= Len(files)
    /\ ~IsImageFile(files[idx])
    /\ idx' = idx + 1
    /\ UNCHANGED pc
    /\ UNCHANGED locVars
    /\ UNCHANGED normVars
    /\ UNCHANGED extVars

\* lines 63-64: no name is a substring of the file's name
NoMatch ==
    /\ pc = "walk"
    /\ idx <= Len(files)
    /\ IsImageFile(files[idx])
    /\ ~HasMatch(image_names, files[idx])
    /\ idx' = idx + 1
    /\ UNCHANGED pc
    /\ UNCHANGED locVars
    /\ UNCHANGED normVars
    /\ UNCHANGED extVars

\* lines 64-72 and 75: shutil.copy2 succeeds
CopyOk ==
    /\ pc = "walk"
    /\ idx <= Len(files)
    /\ IsImageFile(files[idx])
    /\ HasMatch(image_names, files[idx])
    /\ target_dir' = target_dir \cup {files[idx]}
    /\ found_images' = found_images \cup {FirstMatch(image_names, files[idx])}
    /\ attempts' = Append(attempts, [file |-> idx, ok |-> TRUE,
                                     name |-> FirstMatch(image_names, files[idx])])
    /\ idx' = idx + 1
    /\ UNCHANGED <<pc, image_names, files, not_found>>
    /\ UNCHANGED normVars
    /\ UNCHANGED extVars

\* CopyFail with the exception of shutil.copy2 left uncaught
CopyFail_Uncaught ==
    /\ pc = "walk"
    /\ idx <= Len(files)
    /\ IsImageFile(files[idx])
    /\ HasMatch(image_names, files[idx])
    /\ attempts' = Append(attempts, [file |-> idx, ok |-> FALSE,
                                     name |-> FirstMatch(image_names, files[idx])])
    /\ pc' = "aborted"
    /\ UNCHANGED <<idx, image_names, files, found_images, target_dir, not_found>>
    /\ UNCHANGED normVars
    /\ UNCHANGED extVars

\* lines 64-70 and 73-75: shutil.copy2 raises, the exception is caught
CopyFail ==
    /\ pc = "walk"
    /\ idx <= Len(files)
    /\ IsImageFile(files[idx])
    /\ HasMatch(image_names, files[idx])
    /\ attempts' = Append(attempts, [file |-> idx, ok |-> FALSE,
                                     name |-> FirstMatch(image_names, files[idx])])
    /\ idx' = idx + 1
    /\ UNCHANGED <<pc, image_names, files, found_images, target_dir, not_found>>
    /\ UNCHANGED normVars
    /\ UNCHANGED extVars

\* lines 77-88: the walk is over, the names not found are reported
Report ==
    /\ pc = "walk"
    /\ idx > Len(files)
    /\ not_found' = Range(image_names) \ found_images
    /\ pc' = "done"
    /\ UNCHANGED <<idx, image_names, files, found_images, target_dir, attempts>>
    /\ UNCHANGED normVars
    /\ UNCHANGED extVars

InitLocator ==
    /\ pc = "start"
    /\ json_content \in LocTexts
    /\ source_text = json_content
    /\ files \in SeqsUpTo(FileNames, MaxFiles)
    /\ image_names = << >>
    /\ found_images = {}
    /\ target_dir = {}
    /\ attempts = << >>
    /\ not_found = {}
    /\ idx = 1
    /\ output = NoText
    /\ modified_count = 0
    /\ branch = "none"
    /\ run = 0
    /\ data = << >>
    /\ annotation_data = << >>

NextLocator ==
    \/ ExtractNamesStructured
    \/ ExtractNamesFallback
    \/ NoNames
    \/ StartSearch
    \/ SkipNotImage
    \/ NoMatch
    \/ CopyOk
    \/ CopyFail
    \/ Report

SpecLocator == InitLocator /\ [][NextLocator]_vars

----------------------------------------------------------------------------
(* Properties of the Path Normalizer *)

\* A run of the Path Normalizer has written its output.
Written(n) == pc = "written" /\ run = n

\* The bare filename of the contract: the query suffix (from the first '?')
\* removed, then the final '/'-separated segment.
BareName(v) == SplitLast(SplitFirst(v, "?"), "/")

\* C1: for a list input, after clean_image_paths_in_json every record with
\* a data.image holds the bare filename of its original value, which
\* contains neither '/' nor '?'.
C1_StructuredBareFilename ==
    (Written(1) /\ json_content.type = "list") =>
        \A i \in 1..Len(json_content.items) :
            HasImageField(json_content.items[i]) =>
                /\ output.items[i].image = BareName(json_content.items[i].image)
                /\ ~HasChar(output.items[i].image, "/")
                /\ ~HasChar(output.items[i].image, "?")

\* C2: for a list input, a run of the Path Normalizer on its own output
\* writes a document identical to that output, and counts zero modifications.
C2_Idempotent ==
    (pc = "written" /\ run >= 2 /\ json_content.type = "list") =>
        /\ output = json_content
        /\ modified_count = 0

\* C2 witness: the first run rewrote a record of a list, and the second run
\* on its output has written.
C2_Witness ==
    /\ Written(2)
    /\ source_text.type = "list"
    /\ \E i \in 1..Len(source_text.items) :
          /\ IsModified(source_text.items[i])
          /\ json_content.items[i].image # source_text.items[i].image
    /\ \E i \in 1..Len(source_text.items) :
          /\ HasImageField(source_text.items[i])
          /\ ~HasChar(source_text.items[i].image, "/")

\* C3: the pattern-based rewrite of the raw text is taken exactly when the
\* text is malformed or its top-level value is not a list, and then the
\* output is the raw text with the matched image fields rewritten; for a
\* list the structured path is taken and the output is the re-serialized list.
C3_FallbackSelection ==
    Written(1) =>
        /\ branch = "regex" <=> json_content.type # "list"
        /\ branch = "regex" =>
              output = [json_content EXCEPT !.items = RegexSubItems(json_content.items)]
        /\ json_content.type = "list" =>
              /\ branch = "structured"
              /\ output = [type  |-> "list",
                           fmt   |-> "indent4",
                           items |-> CleanedItems(json_content)]

----------------------------------------------------------------------------
(* Properties of the Annotation Extractor *)

\* a mapping with a data key, an annotations key and an image key in data
Included(item) ==
    item.isdict /\ item.has_data /\ item.has_annotations /\ item.has_image

\* the source records of the output records, in order
Kept == SelectSeq(data, Included)

\* the result entries of a record, over its annotations, in order
RECURSIVE AllResults(_)
AllResults(annotations) ==
    IF annotations = << >> THEN << >>
    ELSE (IF Head(annotations).has_result THEN Head(annotations).result ELSE << >>)
         \o AllResults(Tail(annotations))

Field(rec, tag) ==
    CASE tag = "image_quality"        -> rec.image_quality
      [] tag = "pizza_quality"        -> rec.pizza_quality
      [] tag = "pizza_quality_reason" -> rec.pizza_quality_reason
      [] tag = "comments"             -> rec.comments

\* the value of the last entry of rs with from_name = tag, "N/A" without one
LastValue(rs, tag) ==
    LET I == {i \in 1..Len(rs) : rs[i].from_name = tag}
    IN  IF I = {} THEN NA
        ELSE LET m == CHOOSE i \in I : \A j \in I : j <= i
             IN  IF tag = "comments" THEN rs[m].text ELSE Join(rs[m].choices)

AllNA(rec) == \A tag \in Tags : Field(rec, tag) = NA

\* C4: every field of every output record equals the value of the last
\* result entry with that from_name, over all annotations of the record in
\* order, and "N/A" when there is none; other from_names change nothing.
C4_LastWins ==
    pc = "done" =>
        /\ Len(annotation_data) = Len(Kept)
        /\ \A k \in 1..Len(annotation_data) : \A tag \in Tags :
              Field(annotation_data[k], tag)
                  = LastValue(AllResults(Kept[k].annotations), tag)

\* C4 witness: a record with two entries of one tag and different values,
\* in one annotation or in two, and an entry of an unrecognized tag.
C4_Witness ==
    /\ pc = "done"
    /\ Len(annotation_data) = 1
    /\ LET rs == AllResults(Kept[1].annotations)
       IN  /\ Len(rs) = 2
           /\ rs[1].from_name = "comments"
           /\ rs[2].from_name = "comments"
           /\ rs[1].text # rs[2].text
           /\ annotation_data[1].comments = rs[2].text

\* C5: the output holds exactly one record for each element that is a
\* mapping with data, annotations and data.image, none for any other
\* element, in the order of the source records.
C5_InclusionAndOrder ==
    pc = "done" =>
        /\ Len(annotation_data) = Len(Kept)
        /\ \A k \in 1..Len(annotation_data) :
              /\ annotation_data[k].image_filename = Kept[k].image
              /\ annotation_data[k].image = IMAGE_PREFIX \o Kept[k].image

\* C5 witness: a kept record, a record with an image and no annotations
\* key, and a kept record with another image.
C5_Witness ==
    /\ pc = "done"
    /\ Len(data) = 3
    /\ Included(data[1])
    /\ data[2].has_image /\ ~data[2].has_annotations
    /\ Included(data[3])
    /\ data[1].image # data[3].image
    /\ Len(annotation_data) = 2
    /\ annotation_data[1].image_filename = data[1].image
    /\ annotation_data[2].image_filename = data[3].image

\* data.image present, annotations empty or absent
SentinelCase(item) ==
    /\ item.isdict /\ item.has_data /\ item.has_image
    /\ ~item.has_annotations \/ item.annotations = << >>

\* C6 as stated: a record with data.image whose annotations sequence is
\* empty or absent yields an output record with the four fields "N/A".
C6_SentinelEmptyOrAbsent ==
    pc = "done" =>
        \A i \in 1..Len(data) :
            SentinelCase(data[i]) =>
                \E k \in 1..Len(annotation_data) :
                    /\ annotation_data[k].image_filename = data[i].image
                    /\ AllNA(annotation_data[k])

\* C6 amended: a record with data.image whose annotations key is present
\* with an empty sequence yields an output record with the four fields
\* "N/A"; records without the annotations key yield no output record.
C6_SentinelEmpty ==
    pc = "done" =>
        /\ \A k \in 1..Len(Kept) :
              Kept[k].annotations = << >> =>
                  /\ k <= Len(annotation_data)
                  /\ annotation_data[k].image_filename = Kept[k].image
                  /\ AllNA(annotation_data[k])
        /\ Len(annotation_data)
              = Cardinality({i \in 1..Len(data) :
                                data[i].isdict /\ data[i].has_data /\ data[i].has_image
                                /\ data[i].has_annotations})

\* C6 witness: one record with an empty annotations list and one without
\* the annotations key, both with data.image.
C6_Witness ==
    /\ pc = "done"
    /\ \E i, j \in 1..Len(data) :
          /\ data[i].has_image /\ data[i].has_annotations /\ data[i].annotations = << >>
          /\ data[j].has_image /\ ~data[j].has_annotations
    /\ Len(annotation_data) = 1
    /\ AllNA(annotation_data[1])

----------------------------------------------------------------------------
(* Properties of the Image Locator/Copier *)

AbcJpg    == <<"a", "b", "c", ".", "j", "p", "g">>
XxxAbcJpg == <<"x", "x", "x", "_", "a", "b", "c", ".", "j", "p", "g">>
AbcJpgBak == <<"a", "b", "c", ".", "j", "p", "g", ".", "b", "a", "k">>

\* the walk has visited file i
Visited(i) == pc \in {"walk", "done"} /\ i < idx

\* the copy attempts made for file i
AttemptsFor(i) == {a \in 1..Len(attempts) : attempts[a].file = i}

\* the file name ends in .jpg, .jpeg or .png, whatever the case
EndsInImageExt(name) ==
    \E e \in ImageExts :
        /\ Len(name) >= Len(e)
        /\ \A k \in 1..Len(e) : LowerChar(name[Len(name) - Len(e) + k]) = e[k]

\* target name n occurs in the file name f
Occurs(n, f) == \E k \in 0..(Len(f) - Len(n)) : \A m \in 1..Len(n) : f[k + m] = n[m]

\* the positions of the target names that occur in the name of file i
Occurring(i) == {k \in 1..Len(image_names) : Occurs(image_names[k], files[i])}

\* C7: every visited image file triggers at most one copy attempt and marks
\* at most one name found: the first name, in extraction order, that is a
\* substring of the file's name; no later name is marked for that file.
C7_FirstMatch ==
    /\ \A i \in 1..Len(files) :
          /\ Cardinality(AttemptsFor(i)) <= 1
          /\ \A a \in AttemptsFor(i) :
                /\ Occurring(i) # {}
                /\ \E k \in Occurring(i) :
                      /\ \A j \in Occurring(i) : k <= j
                      /\ attempts[a].name = image_names[k]
    /\ found_images = {attempts[a].name : a \in {b \in 1..Len(attempts) : attempts[b].ok}}

\* C7 witness: two different target names occur in one file, which was
\* copied, and only the first of them is marked found.
C7_Witness ==
    /\ pc = "done"
    /\ Len(image_names) = 2
    /\ image_names[1] # image_names[2]
    /\ \E i \in 1..Len(files) :
          /\ Occurring(i) = {1, 2}
          /\ \E a \in AttemptsFor(i) : attempts[a].ok
    /\ found_images = {image_names[1]}
    /\ not_found = {image_names[2]}

\* C8 as stated: a file is copied for a target name whenever the target
\* name is a substring of the file's name: "abc.jpg" is matched by
\* "abc.jpg", "xxx_abc.jpg" and "abc.jpg.bak", and not by "ab.jpg".
C8_SubstringMatchesAnyFile ==
    pc = "done" =>
        \A i \in 1..Len(files) :
            AttemptsFor(i) # {} <=> Occurring(i) # {}

\* C8 amended: a file is copied for a target name whenever its name ends in
\* an image extension and the target name is a substring of it, equal or
\* not: "abc.jpg" is matched by "abc.jpg" and "xxx_abc.jpg", and neither by
\* "ab.jpg" nor by "abc.jpg.bak", which is not an image file.
C8_SubstringMatchesImageFile ==
    pc = "done" =>
        \A i \in 1..Len(files) :
            /\ AttemptsFor(i) # {} <=> (EndsInImageExt(files[i]) /\ Occurring(i) # {})
            /\ \A a \in AttemptsFor(i) :
                  attempts[a].ok => (files[i] \in target_dir /\ attempts[a].name \in found_images)

\* C8 witness: "abc.jpg" is searched for; "xxx_abc.jpg" was copied and
\* "abc.jpg.bak" was not.
C8_Witness ==
    /\ pc = "done"
    /\ image_names = <<AbcJpg>>
    /\ files = <<XxxAbcJpg, AbcJpgBak>>
    /\ target_dir = {XxxAbcJpg}
    /\ found_images = {AbcJpg}

\* C9: a failed copy is caught and does not abort the scan: the walk goes
\* on past the file, every later matching file is still copied, the run
\* ends with the report, and the failed copy marks no name found.
C9_CopyFailureRecovery ==
    /\ \A a \in 1..Len(attempts) :
          ~attempts[a].ok => Visited(attempts[a].file)
    /\ pc = "walk" => ENABLED NextLocator
    /\ pc = "done" =>
          /\ idx = Len(files) + 1
          /\ \A i \in 1..Len(files) :
                (EndsInImageExt(files[i]) /\ Occurring(i) # {}) => AttemptsFor(i) # {}
          /\ not_found = Range(image_names)
                           \ {attempts[a].name : a \in {b \in 1..Len(attempts) : attempts[b].ok}}

\* C9 witness: the copy of the first file failed, the second file was
\* copied, and the name of the failed copy is reported not found.
C9_Witness ==
    /\ pc = "done"
    /\ Len(attempts) = 2
    /\ ~attempts[1].ok /\ attempts[1].file = 1
    /\ attempts[2].ok /\ attempts[2].file = 2
    /\ attempts[1].name # attempts[2].name
    /\ attempts[1].name \in not_found
    /\ files[2] \in target_dir

\* C10: without copy failures, a target name is reported not found if and
\* only if no image file of the tree has a name containing it.
C10_ReportAccuracy ==
    (pc = "done" /\ \A a \in 1..Len(attempts) : attempts[a].ok) =>
        not_found = {n \in Range(image_names) :
                        ~\E i \in 1..Len(files) :
                            EndsInImageExt(files[i]) /\ Occurs(n, files[i])}

====
